---------------------------- MODULE Spec2Model ----------------------------
(***************************************************************************)
(* A model of the rule engine (pokemon_agent.py) and of its batch driver   *)
(* (batch_ai_processor.py).                                                *)
(*                                                                         *)
(* Python values are modelled as follows.                                  *)
(*   - A str that the code inspects (lower(), substring tests, dictionary  *)
(*     keys read from the record) is a sequence of one-character strings.  *)
(*   - A str that is only produced and compared (tag names, tier and role  *)
(*     keys, exception names) is a TLA+ string.                            *)
(*   - An optional field of a record is [k, v]: k = "absent" (the key is   *)
(*     not in the dict), k = "null" (the key maps to None) or k = "val".   *)
(*   - A dict read in insertion order (leagues) is a sequence of entries.  *)
(*   - A function that can raise returns the exception's class name in     *)
(*     place of (or beside) its value.                                     *)
(***************************************************************************)
EXTENDS Integers, Sequences, FiniteSets, TLC

VARIABLES
    config,           \* PokemonAgent.config: the loaded configuration
    pokemon,          \* the record handed to the engine
    pc,               \* position of the caller
    args,             \* the other arguments of the function under call
    performance_tier, \* value returned by calculate_performance_tier
    role_type,        \* value returned by determine_role_type
    tags,             \* value returned by generate_tags
    strengths_returned, \* value returned by identify_strengths
    results,          \* values returned by the calls of analyze_pokemon made so far
    config_file,      \* the configuration file on disk
    data_file,        \* BatchAIProcessor.data_file, as it is on disk
    backup_interval,  \* BatchAIProcessor.backup_interval
    start_idx,        \* process_pokemon_batch: parameter start_idx
    pokemon_data,     \* the list main loads and process_pokemon_batch updates in place
    loop_i,           \* process_pokemon_batch: loop index i
    processed_count,  \* BatchAIProcessor.processed_count
    error_count,      \* BatchAIProcessor.error_count
    files             \* the calls of save_pokemon_data made so far

callVars  == <<pokemon, args, performance_tier, role_type, tags, strengths_returned,
               results>>
batchVars == <<config_file, data_file, backup_interval, start_idx, pokemon_data, loop_i,
               processed_count, error_count, files>>
vars == <<config, pc, callVars, batchVars>>

ExceptionNames ==
    {"AttributeError", "TypeError", "OverflowError", "KeyError", "ZeroDivisionError"}

----------------------------------------------------------------------------
(* Strings *)

UpperChars == <<"A","B","C","D","E","F","G","H","I","J","K","L","M",
                "N","O","P","Q","R","S","T","U","V","W","X","Y","Z">>
LowerChars == <<"a","b","c","d","e","f","g","h","i","j","k","l","m",
                "n","o","p","q","r","s","t","u","v","w","x","y","z">>

\* str.lower() on one character
LowerChar(c) ==
    IF \E i \in 1..Len(UpperChars) : UpperChars[i] = c
    THEN LowerChars[CHOOSE i \in 1..Len(UpperChars) : UpperChars[i] = c]
    ELSE c

\* str.lower()
Lower(s) == [i \in 1..Len(s) |-> LowerChar(s[i])]

\* the Python test `sub in s` on two strings
Contains(s, sub) ==
    \E i \in 1..(Len(s) - Len(sub) + 1) : SubSeq(s, i, i + Len(sub) - 1) = sub

\* string literals of the source
s_S_Tier     == <<"S"," ","T","i","e","r">>
s_Ap_Tier    == <<"A","+"," ","T","i","e","r">>
s_A_Tier     == <<"A"," ","T","i","e","r">>
s_Bp_Tier    == <<"B","+"," ","T","i","e","r">>
s_B_Tier     == <<"B"," ","T","i","e","r">>
s_C_Tier     == <<"C"," ","T","i","e","r">>
s_shadow     == <<"s","h","a","d","o","w">>
s_mega       == <<"m","e","g","a">>
s_gigantamax == <<"g","i","g","a","n","t","a","m","a","x">>
s_normal     == <<"n","o","r","m","a","l">>
s_null       == <<"n","u","l","l">>
s_999        == <<"9","9","9">>
s_None       == <<"N","o","n","e">>
s_empty      == <<>>

----------------------------------------------------------------------------
(* Optional fields *)

Absent(d) == [k |-> "absent", v |-> d]
Null(d)   == [k |-> "null", v |-> d]
Val(x)    == [k |-> "val", v |-> x]

\* pokemon.get(key, default): the default only when the key is absent; None stays None
\* (the caller tests f.k = "null")
GetOr(f, default) == IF f.k = "absent" THEN default ELSE f.v

\* pokemon.get(key, default) or default   /   pokemon.get(key) or default
GetOrFalsy(f, default, falsy) ==
    IF f.k # "val" \/ f.v = falsy THEN default ELSE f.v

----------------------------------------------------------------------------
(* _parse_rank *)

Digits == <<"0","1","2","3","4","5","6","7","8","9">>
IsDigit(c) == \E i \in 1..10 : Digits[i] = c
DigitVal(c) == (CHOOSE i \in 1..10 : Digits[i] = c) - 1

\* str.rstrip('.')
RECURSIVE RStripDot(_)
RStripDot(s) ==
    IF Len(s) > 0 /\ s[Len(s)] = "." THEN RStripDot(SubSeq(s, 1, Len(s) - 1)) ELSE s

RECURSIVE DigitsVal(_)
DigitsVal(s) ==
    IF Len(s) = 0 THEN 0 ELSE 10 * DigitsVal(SubSeq(s, 1, Len(s) - 1)) + DigitVal(s[Len(s)])

AllDigits(s) == \A i \in 1..Len(s) : IsDigit(s[i])

s_inf      == <<"i","n","f">>
s_infinity == <<"i","n","f","i","n","i","t","y">>
s_nan      == <<"n","a","n">>

\* int(float(s)) for the float literals  [sign] digits [. digits]  |  [sign] . digits
\* and the special values inf / infinity / nan (any case).  The result is
\*   [r |-> "ok", n |-> the float truncated toward zero]
\*   [r |-> "ValueError"]      float() rejects the text, or int(nan)
\*   [r |-> "OverflowError"]   int(inf)
IntOfFloat(s) ==
    LET signed == Len(s) > 0 /\ s[1] \in {"+", "-"}
        neg    == signed /\ s[1] = "-"
        body   == IF signed THEN SubSeq(s, 2, Len(s)) ELSE s
        dots   == {i \in 1..Len(body) : body[i] = "."}
        whole  == IF dots = {} THEN body
                  ELSE SubSeq(body, 1, (CHOOSE i \in dots : TRUE) - 1)
        frac   == IF dots = {} THEN <<>>
                  ELSE SubSeq(body, (CHOOSE i \in dots : TRUE) + 1, Len(body))
    IN  IF Lower(body) \in {s_inf, s_infinity} THEN [r |-> "OverflowError", n |-> 0]
        ELSE IF Lower(body) = s_nan THEN [r |-> "ValueError", n |-> 0]
        ELSE IF /\ Cardinality(dots) <= 1
                /\ AllDigits(whole) /\ AllDigits(frac)
                /\ Len(whole) + Len(frac) > 0
             THEN [r |-> "ok", n |-> IF neg THEN 0 - DigitsVal(whole) ELSE DigitsVal(whole)]
             ELSE [r |-> "ValueError", n |-> 0]

\* str(x) of a rank value: the field carries the str() rendering of a present
\* value; None renders as "None"
StrOfRank(rank) == IF rank.k = "null" THEN s_None ELSE rank.v

\* _parse_rank(rank_str): [r |-> "ok", n] or [r |-> "OverflowError"] (not caught)
parse_rank(rank) ==
    LET f == IntOfFloat(RStripDot(StrOfRank(rank)))
    IN  IF f.r = "ValueError" THEN [r |-> "ok", n |-> 999] ELSE f

\* t.get('rank', '999')
GetRank(t) == IF t.rank.k = "absent" THEN Val(s_999) ELSE t.rank

----------------------------------------------------------------------------
(* Metrics shared by calculate_performance_tier and determine_role_type *)

\* truthiness of one value of the leagues dict: None and {} are falsy
LeagueTruthy(league) == league.k = "val" /\ league.keys # {}

\* league.get('score', 0)
LeagueScore(league) == IF "score" \in league.keys THEN league.score ELSE 0

\* [league.get('score', 0) for league in leagues.values() if league]
pvp_scores(leagues) ==
    LET kept == SelectSeq(leagues, LeagueTruthy)
    IN  [i \in 1..Len(kept) |-> LeagueScore(kept[i])]

SeqMax(s) == CHOOSE x \in {s[i] : i \in 1..Len(s)} : \A j \in 1..Len(s) : s[j] <= x

\* max(pvp_scores) if pvp_scores else 0
max_pvp_score(leagues) ==
    IF Len(pvp_scores(leagues)) > 0 THEN SeqMax(pvp_scores(leagues)) ELSE 0

StrongLeagueMin == 75

\* len([score for score in pvp_scores if score >= 75])
strong_leagues(leagues) ==
    Cardinality({i \in 1..Len(pvp_scores(leagues)) : pvp_scores(leagues)[i] >= StrongLeagueMin})

\* self.config['raid_tier_rankings'].get(raid_tier, 0); raid_tier may be None
raid_score(cfg, raid_tier) ==
    IF raid_tier.k = "val" /\ \E e \in cfg.raid_tier_rankings : e.tier = raid_tier.v
    THEN (CHOOSE e \in cfg.raid_tier_rankings : e.tier = raid_tier.v).score
    ELSE 0

\* some _parse_rank call of the comprehension over best_types raises
RankRaises(best_types) ==
    \E i \in 1..Len(best_types) : parse_rank(GetRank(best_types[i])).r # "ok"

TopRankMax == 10

\* the count with `<` for `<=`
top_type_rankings_Strict(best_types) ==
    Cardinality({i \in 1..Len(best_types) :
                    parse_rank(GetRank(best_types[i])).n < TopRankMax})

\* len([t for t in best_types if self._parse_rank(t.get('rank', '999')) <= 10])
top_type_rankings(best_types) ==
    Cardinality({i \in 1..Len(best_types) :
                    parse_rank(GetRank(best_types[i])).n <= TopRankMax})

\* any(tier in (defense_tier or '') for tier in ['S Tier', 'A+ Tier', 'A Tier'])
has_good_defense(defense_tier) ==
    \E t \in {s_S_Tier, s_Ap_Tier, s_A_Tier} : Contains(defense_tier, t)

----------------------------------------------------------------------------
(* calculate_performance_tier *)

TierKeys == <<"trash", "limited", "situational", "solid", "strong", "meta_defining">>

\* the chain with `and` for `or` in the second test
TierCascade_AndForOr(max_pvp, strong, raid) ==
    IF max_pvp >= 90 /\ strong >= 2 /\ raid >= 4 THEN "meta_defining"
    ELSE IF max_pvp >= 80 /\ (strong >= 1 /\ raid >= 3) THEN "strong"
    ELSE IF max_pvp >= 70 \/ raid >= 3 THEN "solid"
    ELSE IF max_pvp >= 60 \/ raid >= 2 THEN "situational"
    ELSE IF max_pvp >= 50 \/ raid >= 1 THEN "limited"
    ELSE "trash"

\* the chain with `==` for `>=` in the strong-league test of the second branch
TierCascade_EqForGe(max_pvp, strong, raid) ==
    IF max_pvp >= 90 /\ strong >= 2 /\ raid >= 4 THEN "meta_defining"
    ELSE IF max_pvp >= 80 /\ (strong = 1 \/ raid >= 3) THEN "strong"
    ELSE IF max_pvp >= 70 \/ raid >= 3 THEN "solid"
    ELSE IF max_pvp >= 60 \/ raid >= 2 THEN "situational"
    ELSE IF max_pvp >= 50 \/ raid >= 1 THEN "limited"
    ELSE "trash"

\* the if/elif chain that determines the tier
TierCascade(max_pvp, strong, raid) ==
    IF max_pvp >= 90 /\ strong >= 2 /\ raid >= 4 THEN "meta_defining"
    ELSE IF max_pvp >= 80 /\ (strong >= 1 \/ raid >= 3) THEN "strong"
    ELSE IF max_pvp >= 70 \/ raid >= 3 THEN "solid"
    ELSE IF max_pvp >= 60 \/ raid >= 2 THEN "situational"
    ELSE IF max_pvp >= 50 \/ raid >= 1 THEN "limited"
    ELSE "trash"

\* A tier key, or the class of the exception the call raises:
\*   leagues = None    -> None.values()          AttributeError
\*   bestTypes = None  -> iteration over None    TypeError
\*   a rank that reads as infinity -> int(inf)   OverflowError
calculate_performance_tier(cfg, p) ==
    IF p.leagues.k = "null" THEN "AttributeError"
    ELSE IF p.bestTypes.k = "null" THEN "TypeError"
    ELSE IF RankRaises(GetOr(p.bestTypes, <<>>)) THEN "OverflowError"
    ELSE TierCascade(max_pvp_score(GetOr(p.leagues, <<>>)),
                     strong_leagues(GetOr(p.leagues, <<>>)),
                     raid_score(cfg, IF p.raidTier.k = "absent" THEN Val(s_empty)
                                     ELSE p.raidTier))

----------------------------------------------------------------------------
(* determine_role_type *)

RoleKeys == <<"meta_anchor", "pvp_specialist", "league_anchor", "raid_specialist",
              "type_specialist", "gym_defender", "cup_specialist", "spice_pick",
              "budget_option", "collector_only">>

\* the if/elif chain that determines the role
\* the chain with `>` for `>=` in the pvp_specialist test
RoleCascade_StrictPvp(max_pvp, strong, raid, top_types, good_defense) ==
    IF max_pvp >= 85 /\ strong >= 2 /\ raid >= 3 THEN "meta_anchor"
    ELSE IF max_pvp > 80 /\ strong >= 1 THEN "pvp_specialist"
    ELSE IF max_pvp >= 75 /\ strong >= 1 THEN "league_anchor"
    ELSE IF raid >= 3 \/ top_types >= 1 THEN "raid_specialist"
    ELSE IF raid >= 2 \/ top_types >= 1 THEN "type_specialist"
    ELSE IF good_defense /\ max_pvp >= 60 THEN "gym_defender"
    ELSE IF max_pvp >= 65 THEN "cup_specialist"
    ELSE IF max_pvp >= 50 THEN "spice_pick"
    ELSE IF max_pvp >= 45 \/ raid >= 1 THEN "budget_option"
    ELSE "collector_only"

RoleCascade(max_pvp, strong, raid, top_types, good_defense) ==
    IF max_pvp >= 85 /\ strong >= 2 /\ raid >= 3 THEN "meta_anchor"
    ELSE IF max_pvp >= 80 /\ strong >= 1 THEN "pvp_specialist"
    ELSE IF max_pvp >= 75 /\ strong >= 1 THEN "league_anchor"
    ELSE IF raid >= 3 \/ top_types >= 1 THEN "raid_specialist"
    ELSE IF raid >= 2 \/ top_types >= 1 THEN "type_specialist"
    ELSE IF good_defense /\ max_pvp >= 60 THEN "gym_defender"
    ELSE IF max_pvp >= 65 THEN "cup_specialist"
    ELSE IF max_pvp >= 50 THEN "spice_pick"
    ELSE IF max_pvp >= 45 \/ raid >= 1 THEN "budget_option"
    ELSE "collector_only"

\* A role key, or "OverflowError" when a rank reads as infinity.  Every field is
\* read with `or <empty>`, so None behaves as absent.
determine_role_type(cfg, p) ==
    LET leagues      == GetOrFalsy(p.leagues, <<>>, <<>>)
        raid_tier    == IF p.raidTier.k = "val" THEN p.raidTier ELSE Val(s_empty)
        defense_tier == GetOrFalsy(p.defenderTier, s_empty, s_empty)
        best_types   == GetOrFalsy(p.bestTypes, <<>>, <<>>)
    IN  IF RankRaises(best_types) THEN "OverflowError"
        ELSE RoleCascade(max_pvp_score(leagues), strong_leagues(leagues),
                         raid_score(cfg, raid_tier), top_type_rankings(best_types),
                         has_good_defense(defense_tier))

----------------------------------------------------------------------------
(* generate_tags *)

s_essential == <<"e","s","s","e","n","t","i","a","l">>
s_valuable  == <<"v","a","l","u","a","b","l","e">>
s_reliable  == <<"r","e","l","i","a","b","l","e">>
s_useful    == <<"u","s","e","f","u","l">>
s_niche     == <<"n","i","c","h","e">>
s_trash     == <<"t","r","a","s","h">>

\* priority_mapping[trashability][:2], or nothing when the label is no key
priority_tags(trashability) ==
    CASE trashability = s_essential -> <<"Meta Relevant", "Essential Build">>
      [] trashability = s_valuable  -> <<"High Priority", "Core Team">>
      [] trashability = s_reliable  -> <<"Budget Friendly", "Type Coverage">>
      [] trashability = s_useful    -> <<"Future Investment">>
      [] trashability = s_niche     -> <<"Spice Factor">>
      [] trashability = s_trash     -> <<"Trash Tier", "Candy Fodder">>
      [] OTHER                      -> <<>>

\* the investment level tag
investment_tags(recommended_count) ==
    IF recommended_count >= 4 THEN <<"Heavy Investment">>
    ELSE IF recommended_count >= 2 THEN <<"XL Investment">>
    ELSE IF recommended_count = 1 THEN <<"Low Investment">>
    ELSE IF recommended_count = 0 THEN <<"Skip Building">>
    ELSE <<>>

\* the performance style tag
style_tags(form, raid_tier, leagues) ==
    IF Contains(form, s_shadow) THEN <<"Glass Cannon">>
    ELSE IF raid_tier \in {s_S_Tier, s_Ap_Tier} THEN <<"High DPS">>
    ELSE IF \E i \in 1..Len(leagues) :
                LeagueTruthy(leagues[i]) /\ LeagueScore(leagues[i]) >= 80
         THEN <<"League Staple">>
    ELSE <<>>

\* the role_tags table; nothing for a role that is no key of it
role_tags(role) ==
    CASE role = "meta_anchor"     -> <<"Core Team", "League Staple">>
      [] role = "pvp_specialist"  -> <<"League Staple", "Anti-Meta">>
      [] role = "league_anchor"   -> <<"League Staple", "Safe Switch">>
      [] role = "raid_specialist" -> <<"High DPS", "Raid Filler">>
      [] role = "type_specialist" -> <<"Type Coverage", "Raid Filler">>
      [] role = "gym_defender"    -> <<"Gym Defender", "Tanky">>
      [] role = "cup_specialist"  -> <<"Cup Meta", "Niche Cup">>
      [] role = "spice_pick"      -> <<"Spice Factor", "Flex Pick">>
      [] role = "budget_option"   -> <<"Budget Friendly", "Low Investment">>
      [] role = "collector_only"  -> <<"Candy Fodder", "Skip Building">>
      [] OTHER                    -> <<>>

InSeq(x, s) == \E i \in 1..Len(s) : s[i] = x

RoleTagLimit == 4

\* the loop without its `if tag not in tags` test
RECURSIVE add_role_tags_NoDedup(_, _)
add_role_tags_NoDedup(tgs, rest) ==
    IF Len(rest) = 0 THEN tgs
    ELSE IF Len(Append(tgs, Head(rest))) >= RoleTagLimit THEN Append(tgs, Head(rest))
    ELSE add_role_tags_NoDedup(Append(tgs, Head(rest)), Tail(rest))

\* for tag in role_tags[role]:
\*     if tag not in tags: tags.append(tag); if len(tags) >= 4: break
RECURSIVE add_role_tags(_, _)
add_role_tags(tgs, rest) ==
    IF Len(rest) = 0 THEN tgs
    ELSE IF InSeq(Head(rest), tgs) THEN add_role_tags(tgs, Tail(rest))
    ELSE IF Len(Append(tgs, Head(rest))) >= RoleTagLimit THEN Append(tgs, Head(rest))
    ELSE add_role_tags(Append(tgs, Head(rest)), Tail(rest))

\* the form-specific tag
add_form_tag(tgs, form) ==
    IF Contains(form, s_shadow) /\ ~InSeq("Shadow Boost", tgs) THEN Append(tgs, "Shadow Boost")
    ELSE IF Contains(form, s_mega) /\ ~InSeq("Mega Evolution", tgs)
         THEN Append(tgs, "Mega Evolution")
    ELSE IF Contains(form, s_gigantamax) /\ ~InSeq("Gigantamax", tgs)
         THEN Append(tgs, "Gigantamax")
    ELSE tgs

MaxTags == 5
MinTags == 2

\* s[:n]
Take(s, n) == SubSeq(s, 1, IF Len(s) < n THEN Len(s) ELSE n)

\* tags = tags[:5]; if len(tags) < 2: tags.extend([...]); return tags[:5]
finish_tags(tgs) ==
    LET cut == Take(tgs, MaxTags)
    IN  Take(IF Len(cut) < MinTags THEN cut \o <<"Type Coverage", "Future Investment">>
             ELSE cut, MaxTags)

\* the collection started from the keyTags the record already carries
tags_before_role_KeepOld(p) ==
    LET trashability      == Lower(GetOrFalsy(p.trashability, s_empty, s_empty))
        form              == Lower(GetOrFalsy(p.form, s_empty, s_empty))
        recommended_count == GetOrFalsy(p.recommendedCount, 0, 0)
        leagues           == GetOrFalsy(p.leagues, <<>>, <<>>)
        raid_tier         == GetOrFalsy(p.raidTier, s_empty, s_empty)
    IN  GetOrFalsy(p.keyTags, <<>>, <<>>) \o priority_tags(trashability)
            \o investment_tags(recommended_count) \o style_tags(form, raid_tier, leagues)

\* the tags collected before the role-specific step
tags_before_role(p) ==
    LET trashability      == Lower(GetOrFalsy(p.trashability, s_empty, s_empty))
        form              == Lower(GetOrFalsy(p.form, s_empty, s_empty))
        recommended_count == GetOrFalsy(p.recommendedCount, 0, 0)
        leagues           == GetOrFalsy(p.leagues, <<>>, <<>>)
        raid_tier         == GetOrFalsy(p.raidTier, s_empty, s_empty)
    IN  priority_tags(trashability) \o investment_tags(recommended_count)
            \o style_tags(form, raid_tier, leagues)

\* generate_tags(pokemon, tier, role, strengths); tier and strengths are not read
generate_tags(p, tier, role, strengths) ==
    LET form == Lower(GetOrFalsy(p.form, s_empty, s_empty))
    IN  finish_tags(add_form_tag(add_role_tags(tags_before_role(p), role_tags(role)), form))

----------------------------------------------------------------------------
(* identify_strengths *)

UpperChar(c) ==
    IF \E i \in 1..Len(LowerChars) : LowerChars[i] = c
    THEN UpperChars[CHOOSE i \in 1..Len(LowerChars) : LowerChars[i] = c]
    ELSE c

IsAlpha(c) == LowerChar(c) # c \/ UpperChar(c) # c

\* str.title(): a letter after a non-letter is upper-cased, every other one lower-cased
Title(s) ==
    [i \in 1..Len(s) |->
        IF i = 1 \/ ~IsAlpha(s[i - 1]) THEN UpperChar(s[i]) ELSE LowerChar(s[i])]

\* str.replace('_', ' ')
ReplaceUnderscore(s) == [i \in 1..Len(s) |-> IF s[i] = "_" THEN " " ELSE s[i]]

\* A phrase or sentence built by an f-string is kept as its parts:
\*   kind    the literal text of the f-string
\*   leagues the (league title, score) pairs it renders
\*   types   the type names or (type, rank) pairs it renders
Phrase(kind, leagues, types) == [kind |-> kind, leagues |-> leagues, types |-> types]

\* the entries of a leagues dict that pass `data and data.get('score', 0) >= limit`,
\* each rendered as f"{league.title()} League ({data['score']})"
LeaguesAtLeast(leagues, limit) ==
    LET Keep(l) == LeagueTruthy(l) /\ LeagueScore(l) >= limit
        kept == SelectSeq(leagues, Keep)
    IN  [i \in 1..Len(kept) |-> [name |-> Title(kept[i].name), score |-> kept[i].score]]

\* The exception raised by a comprehension
\*     [... t['type'] ... for t in best_types if self._parse_rank(t.get('rank', '999')) <= limit]
\* that is, by its first entry whose rank reads as infinity (OverflowError) or
\* which passes the test and has no 'type' key (KeyError); "" when none raises.
RECURSIVE RankedTypesExc(_, _)
RankedTypesExc(best_types, limit) ==
    IF Len(best_types) = 0 THEN ""
    ELSE LET r == parse_rank(GetRank(Head(best_types)))
         IN  IF r.r # "ok" THEN r.r
             ELSE IF r.n <= limit /\ Head(best_types).type.k = "absent" THEN "KeyError"
             ELSE RankedTypesExc(Tail(best_types), limit)

\* the comprehension with `<` for `<=`
RankedTypes_Strict(best_types, limit) ==
    LET Keep(t) == parse_rank(GetRank(t)).n < limit
    IN  SelectSeq(best_types, Keep)

\* the entries that pass the rank test of such a comprehension
RankedTypes(best_types, limit) ==
    LET Keep(t) == parse_rank(GetRank(t)).n <= limit
    IN  SelectSeq(best_types, Keep)

EliteRankMax == 5
StrengthLeagueMin == 80
MaxStrengths == 2

\* identify_strengths has not been called
NoStrengths == [exc |-> "unset", v |-> <<>>]

\* [exc |-> "" or the exception raised, v |-> strengths[:2]]
identify_strengths(cfg, p) ==
    LET leagues    == GetOrFalsy(p.leagues, <<>>, <<>>)
        best_types == GetOrFalsy(p.bestTypes, <<>>, <<>>)
        types      == GetOrFalsy(p.types, <<>>, <<>>)
        raid_tier  == GetOrFalsy(p.raidTier, s_empty, s_empty)
        strong     == LeaguesAtLeast(leagues, StrengthLeagueMin)
        league_s   == IF Len(strong) > 1 THEN <<Phrase("leagues performance", strong, <<>>)>>
                      ELSE IF Len(strong) = 1 THEN <<Phrase("league", strong, <<>>)>>
                      ELSE <<>>
        elite      == RankedTypes(best_types, EliteRankMax)
        elite_s    == IF Len(elite) > 0
                      THEN <<Phrase("elite attacker", <<>>,
                                    [i \in 1..Len(Take(elite, 2)) |-> elite[i].type.v])>>
                      ELSE <<>>
        typing_s   == IF \E i \in 1..Len(types) : types[i] \in cfg.defensive_types
                      THEN <<Phrase("excellent defensive typing", <<>>, <<>>)>>
                      ELSE IF \E i \in 1..Len(types) : types[i] \in cfg.offensive_types
                      THEN <<Phrase("powerful offensive typing", <<>>, <<>>)>>
                      ELSE <<>>
        raid_s     == IF Contains(raid_tier, s_S_Tier)
                      THEN <<Phrase("top-tier raid performance", <<>>, <<>>)>>
                      ELSE IF Contains(raid_tier, s_Ap_Tier)
                      THEN <<Phrase("elite raid utility", <<>>, <<>>)>>
                      ELSE <<>>
    IN  IF RankedTypesExc(best_types, EliteRankMax) # ""
        THEN [exc |-> RankedTypesExc(best_types, EliteRankMax), v |-> <<>>]
        ELSE [exc |-> "", v |-> Take(league_s \o elite_s \o typing_s \o raid_s, MaxStrengths)]

----------------------------------------------------------------------------
(* generate_role_summary and its helpers *)

HasRole(cfg, role) == \E e \in cfg.role_types : e.key = role

\* self.config['role_types'][role]['name']
RoleName(cfg, role) == (CHOOSE e \in cfg.role_types : e.key = role).name

\* league and isinstance(league, dict)
ValidLeagues(leagues) == SelectSeq(leagues, LeagueTruthy)

\* max(pairs, key=score): the first entry with the largest score
FirstBest(valid) ==
    valid[CHOOSE i \in 1..Len(valid) :
            /\ \A j \in 1..Len(valid) : LeagueScore(valid[j]) <= LeagueScore(valid[i])
            /\ \A j \in 1..(i - 1) : LeagueScore(valid[j]) < LeagueScore(valid[i])]

TopTiers == {s_S_Tier, s_Ap_Tier, s_A_Tier}

UseCase(kind, league) == [kind |-> kind, league |-> league]

get_best_use_case(p) ==
    LET leagues      == GetOrFalsy(p.leagues, <<>>, <<>>)
        raid_tier    == GetOrFalsy(p.raidTier, s_empty, s_empty)
        defense_tier == GetOrFalsy(p.defenderTier, s_empty, s_empty)
        valid        == ValidLeagues(leagues)
    IN  IF Len(valid) > 0 /\ LeagueScore(FirstBest(valid)) >= 75
        THEN UseCase("League", Title(ReplaceUnderscore(FirstBest(valid).name)))
        ELSE IF raid_tier \in TopTiers THEN UseCase("raid battles", s_empty)
        ELSE IF defense_tier \in TopTiers THEN UseCase("gym defense", s_empty)
        ELSE UseCase("niche situations", s_empty)

get_specific_use_case(p) ==
    LET leagues == GetOrFalsy(p.leagues, <<>>, <<>>)
        form    == Lower(GetOrFalsy(p.form, s_empty, s_empty))
        valid   == ValidLeagues(leagues)
    IN  IF Contains(form, s_shadow) THEN UseCase("glass cannon raids", s_empty)
        ELSE IF Contains(form, s_mega) THEN UseCase("temporary raid boosts", s_empty)
        ELSE IF Contains(form, s_gigantamax) THEN UseCase("Max Battles", s_empty)
        ELSE IF Len(valid) > 0 /\ LeagueScore(FirstBest(valid)) >= 60
        THEN UseCase("League coverage", Title(ReplaceUnderscore(FirstBest(valid).name)))
        ELSE UseCase("type coverage gaps", s_empty)

get_type_coverage(p) ==
    LET types == GetOrFalsy(p.types, <<>>, <<>>)
    IN  IF Len(types) >= 2 THEN Phrase("coverage", <<>>, types)
        ELSE IF Len(types) = 1 THEN Phrase("type coverage", <<>>, types)
        ELSE Phrase("type coverage", <<>>, <<>>)

s_backup == <<"b","a","c","k","u","p"," ">>

\* the values handed to template.format; a template slot that is not handed over
\* holds NoUse / NoPhrase / the empty string
NoUse    == UseCase("", s_empty)
NoPhrase == Phrase("", <<>>, <<>>)

Summary(tier, name, role, use, backup_role, strength, coverage) ==
    [template |-> tier, pokemon_name |-> name, role |-> role, use |-> use,
     backup_role |-> backup_role, key_strength |-> strength, type_coverage |-> coverage]

NoSummary == Summary("", Val(""), s_empty, NoUse, s_empty, NoPhrase, NoPhrase)

\* [exc |-> "" or the exception raised, v |-> the filled template]
generate_role_summary(cfg, p, tier, role, strengths) ==
    LET pokemon_name == IF p.name.k = "absent" THEN Val("This Pokemon") ELSE p.name
        role_name    == RoleName(cfg, role)
        key_strength == IF Len(strengths) > 0 THEN strengths[1]
                        ELSE Phrase("basic utility", <<>>, <<>>)
    IN  IF tier \notin cfg.role_summary_templates \/ ~HasRole(cfg, role)
        THEN [exc |-> "KeyError", v |-> NoSummary]
        ELSE IF tier = "trash"
        THEN [exc |-> "", v |-> Summary(tier, pokemon_name, s_empty, NoUse, s_empty,
                                        NoPhrase, NoPhrase)]
        ELSE IF tier \in {"situational", "limited"}
        THEN [exc |-> "",
              v |-> Summary(tier, pokemon_name, Lower(role_name), get_specific_use_case(p),
                            IF tier = "limited" THEN s_backup \o Lower(role_name)
                            ELSE Lower(role_name),
                            NoPhrase, get_type_coverage(p))]
        ELSE [exc |-> "",
              v |-> Summary(tier, pokemon_name, Lower(role_name), get_best_use_case(p),
                            s_empty, key_strength, NoPhrase)]

----------------------------------------------------------------------------
(* generate_notes *)

NotesLeagueMin == 70
NotesRankMax == 15
NotesTypes == 3

\* a sentence also renders a tier string (text), a count (n) or an exception (exc)
Sentence(kind, text, leagues, types, n) ==
    [kind |-> kind, text |-> text, leagues |-> leagues, types |-> types, n |-> n,
     exc |-> ""]

\* [exc |-> "" or the exception raised, v |-> the sentences that are joined with " "]
generate_notes(cfg, p, tier, role, strengths) ==
    LET leagues      == GetOr(p.leagues, <<>>)
        strong       == LeaguesAtLeast(leagues, NotesLeagueMin)
        raid_tier    == GetOr(p.raidTier, s_empty)
        best_types   == GetOr(p.bestTypes, <<>>)
        raid_said    == p.raidTier.k # "null" /\ raid_tier # s_empty
                            /\ ~Contains(Lower(raid_tier), s_null)
        top_types    == RankedTypes(Take(best_types, NotesTypes), NotesRankMax)
        defense_tier == GetOr(p.defenderTier, s_empty)
        count        == GetOr(p.recommendedCount, 0)
        form         == GetOr(p.form, s_empty)
        tier_s   == <<Sentence("Rated {descriptor} due to overall performance analysis.",
                               s_empty, <<>>, <<>>, 0)>>
        pvp_s    == IF Len(strong) > 0
                    THEN <<Sentence("Strong PvP performance in: {leagues}.",
                                    s_empty, strong, <<>>, 0)>>
                    ELSE <<>>
        raid_s   == IF ~raid_said THEN <<>>
                    ELSE IF Len(top_types) > 0
                    THEN <<Sentence("{raid_tier} raid performance with rankings in: {types}.",
                                    raid_tier, <<>>,
                                    [i \in 1..Len(top_types) |->
                                        [type |-> top_types[i].type.v,
                                         rank |-> StrOfRank(top_types[i].rank)]], 0)>>
                    ELSE <<Sentence("{raid_tier} raid performance.", raid_tier, <<>>, <<>>, 0)>>
        def_s    == IF p.defenderTier.k # "null" /\ defense_tier # s_empty
                        /\ ~Contains(Lower(defense_tier), s_null)
                    THEN <<Sentence("{defense_tier} gym defender.", defense_tier, <<>>, <<>>, 0)>>
                    ELSE <<>>
        count_s  == IF count >= 4
                    THEN <<Sentence("High recommended count ({count}) indicates multiple roles.",
                                    s_empty, <<>>, <<>>, count)>>
                    ELSE IF count >= 2
                    THEN <<Sentence("Moderate recommended count ({count}) suggests specific utility.",
                                    s_empty, <<>>, <<>>, count)>>
                    ELSE IF count = 1
                    THEN <<Sentence("Keep one copy for collection or specific use cases.",
                                    s_empty, <<>>, <<>>, 0)>>
                    ELSE <<Sentence("No copies recommended - transfer for candy.",
                                    s_empty, <<>>, <<>>, 0)>>
        form_s   == IF p.form.k = "null" \/ form = s_empty \/ form = s_normal THEN <<>>
                    ELSE IF Contains(Lower(form), s_shadow)
                    THEN <<Sentence("Shadow form provides increased attack at the cost of defense.",
                                    s_empty, <<>>, <<>>, 0)>>
                    ELSE IF Contains(Lower(form), s_mega)
                    THEN <<Sentence("Mega evolution provides temporary power boost.",
                                    s_empty, <<>>, <<>>, 0)>>
                    ELSE IF Contains(Lower(form), s_gigantamax)
                    THEN <<Sentence("Gigantamax form designed for Max Battle mechanics.",
                                    s_empty, <<>>, <<>>, 0)>>
                    ELSE <<>>
    IN  IF tier \notin cfg.performance_tiers THEN [exc |-> "KeyError", v |-> <<>>]
        ELSE IF p.leagues.k = "null" THEN [exc |-> "AttributeError", v |-> <<>>]
        ELSE IF raid_said /\ p.bestTypes.k = "null" THEN [exc |-> "TypeError", v |-> <<>>]
        ELSE IF raid_said /\ RankedTypesExc(Take(best_types, NotesTypes), NotesRankMax) # ""
        THEN [exc |-> RankedTypesExc(Take(best_types, NotesTypes), NotesRankMax), v |-> <<>>]
        ELSE IF p.recommendedCount.k = "null" THEN [exc |-> "TypeError", v |-> <<>>]
        ELSE [exc |-> "", v |-> tier_s \o pvp_s \o raid_s \o def_s \o count_s \o form_s]

----------------------------------------------------------------------------
(* analyze_pokemon *)

Result(exc, quickRole, keyTags, roleSummary, notes) ==
    [exc |-> exc, quickRole |-> quickRole, keyTags |-> keyTags,
     roleSummary |-> roleSummary, notes |-> notes]

Raised(exc) == Result(exc, s_empty, <<>>, NoSummary, <<>>)

\* The dict the call returns (exc = ""), or the exception that leaves it.
analyze_pokemon(cfg, p) ==
    LET tier      == calculate_performance_tier(cfg, p)
        role      == determine_role_type(cfg, p)
        strengths == identify_strengths(cfg, p)
        summary   == generate_role_summary(cfg, p, tier, role, strengths.v)
        notes_    == generate_notes(cfg, p, tier, role, strengths.v)
        tags_     == generate_tags(p, tier, role, strengths.v)
    IN  IF tier \in ExceptionNames THEN Raised(tier)
        ELSE IF role \in ExceptionNames THEN Raised(role)
        ELSE IF strengths.exc # "" THEN Raised(strengths.exc)
        ELSE IF summary.exc # "" THEN Raised(summary.exc)
        ELSE IF notes_.exc # "" THEN Raised(notes_.exc)
        ELSE IF ~HasRole(cfg, role) THEN Raised("KeyError")
        ELSE Result("", RoleName(cfg, role), tags_, summary.v, notes_.v)

----------------------------------------------------------------------------
(* BatchAIProcessor and PokemonAgent.load_config *)

\* a configuration none of whose tables has an entry
NoConfig ==
    [raid_tier_rankings |-> {}, performance_tiers |-> {}, role_types |-> {},
     role_summary_templates |-> {}, defensive_types |-> {}, offensive_types |-> {}]

\* load_config that returns an empty configuration where the code exits
load_config_NoExit(file) ==
    IF file.status = "ok" THEN [exit |-> FALSE, config |-> file.content]
    ELSE [exit |-> FALSE, config |-> NoConfig]

\* load_config: sys.exit(1) on FileNotFoundError and on JSONDecodeError
load_config(file) ==
    IF file.status = "missing" THEN [exit |-> TRUE, config |-> NoConfig]
    ELSE IF file.status = "invalid" THEN [exit |-> TRUE, config |-> NoConfig]
    ELSE [exit |-> FALSE, config |-> file.content]

\* load_pokemon_data: the list in the file, [] on any error
load_pokemon_data(file) == IF file.readable THEN file.content ELSE <<>>

s_Unknown == <<"U","n","k","n","o","w","n">>

\* pokemon.update({...}) with the analysis
merge_analysis(p, analysis) ==
    [p EXCEPT !.quickRole = Val(analysis.quickRole), !.keyTags = Val(analysis.keyTags),
              !.roleSummary = Val(analysis.roleSummary), !.notes = Val(analysis.notes)]

\* pokemon.update({...}) with the minimal fallback data; the index i in the
\* default name f'Pokemon #{i}' is not rendered
merge_fallback(p, exc) ==
    [p EXCEPT
        !.quickRole = Val(s_Unknown),
        !.keyTags = Val(<<"Processing Error">>),
        !.roleSummary =
            Val(Summary("Error processing {pokemon_name}. Please review manually.",
                        IF p.name.k = "absent" THEN Val("Pokemon #{i}") ELSE p.name,
                        s_empty, NoUse, s_empty, NoPhrase, NoPhrase)),
        !.notes = Val(<<[Sentence("AI analysis failed: {e}", s_empty, <<>>, <<>>, 0)
                            EXCEPT !.exc = exc]>>)]

\* the exceptions `except Exception` catches: every one the loop body can raise
CaughtExceptions == ExceptionNames

\* The body of the loop for the record p at index idx (0-based), given the
\* outcome `analysis` of analyze_pokemon(p):
\*   pokemon         the record after the iteration
\*   processed_count, error_count   the counters after it
\*   backup          a backup save is attempted
\*   escaped         the exception that leaves the loop, "" when none does
\* `raised` is the exception raised inside the try block (the modulo of the
\* backup test raises when the interval is 0, after processed_count was
\* incremented).
try_except(p, analysis, raised, idx, processed, errors, interval, caught) ==
    IF raised = ""
    THEN [pokemon |-> merge_analysis(p, analysis), processed_count |-> processed + 1,
          error_count |-> errors, backup |-> ((idx + 1) % interval = 0),
          escaped |-> ""]
    ELSE IF raised \in caught
    THEN [pokemon |-> merge_fallback(p, raised),
          processed_count |-> IF analysis.exc = "" THEN processed + 1 ELSE processed,
          error_count |-> errors + 1, backup |-> FALSE, escaped |-> ""]
    ELSE [pokemon |-> IF analysis.exc = "" THEN merge_analysis(p, analysis) ELSE p,
          processed_count |-> IF analysis.exc = "" THEN processed + 1 ELSE processed,
          error_count |-> errors, backup |-> FALSE, escaped |-> raised]

raised_in_try(analysis, interval) ==
    IF analysis.exc # "" THEN analysis.exc
    ELSE IF interval = 0 THEN "ZeroDivisionError"
    ELSE ""

try_block(p, analysis, idx, processed, errors, interval, caught) ==
    try_except(p, analysis, raised_in_try(analysis, interval), idx, processed, errors,
               interval, caught)

handle_record_body(cfg, p, idx, processed, errors, interval, caught) ==
    try_block(p, analyze_pokemon(cfg, p), idx, processed, errors, interval, caught)

\* the loop body with `except KeyError` for `except Exception`
handle_record_NarrowExcept(cfg, p, idx, processed, errors, interval) ==
    handle_record_body(cfg, p, idx, processed, errors, interval, {"KeyError"})

\* the loop body counting every record as processed, a failed one too
handle_record_CountTwice(cfg, p, idx, processed, errors, interval) ==
    [handle_record_body(cfg, p, idx, processed, errors, interval, CaughtExceptions)
        EXCEPT !.processed_count = processed + 1]

handle_record(cfg, p, idx, processed, errors, interval) ==
    handle_record_body(cfg, p, idx, processed, errors, interval, CaughtExceptions)

----------------------------------------------------------------------------
(* The configuration (agent_config.json) *)

\* the display name of each role
DefaultRoleName(role) ==
    CASE role = "meta_anchor" -> <<"M","e","t","a"," ","A","n","c","h","o","r">>
      [] role = "pvp_specialist" -> <<"P","v","p"," ","S","p","e","c","i","a","l","i","s","t">>
      [] role = "league_anchor" -> <<"L","e","a","g","u","e"," ","A","n","c","h","o","r">>
      [] role = "raid_specialist" -> <<"R","a","i","d"," ","S","p","e","c","i","a","l","i","s","t">>
      [] role = "type_specialist" -> <<"T","y","p","e"," ","S","p","e","c","i","a","l","i","s","t">>
      [] role = "gym_defender" -> <<"G","y","m"," ","D","e","f","e","n","d","e","r">>
      [] role = "cup_specialist" -> <<"C","u","p"," ","S","p","e","c","i","a","l","i","s","t">>
      [] role = "spice_pick" -> <<"S","p","i","c","e"," ","P","i","c","k">>
      [] role = "budget_option" -> <<"B","u","d","g","e","t"," ","O","p","t","i","o","n">>
      [] role = "collector_only" -> <<"C","o","l","l","e","c","t","o","r"," ","O","n","l","y">>

DefaultConfig ==
    [raid_tier_rankings |-> {[tier |-> s_S_Tier,  score |-> 5],
                             [tier |-> s_Ap_Tier, score |-> 4],
                             [tier |-> s_A_Tier,  score |-> 3],
                             [tier |-> s_Bp_Tier, score |-> 2],
                             [tier |-> s_B_Tier,  score |-> 1]},
     performance_tiers      |-> {TierKeys[i] : i \in 1..Len(TierKeys)},
     role_types             |-> {[key |-> RoleKeys[i], name |-> DefaultRoleName(RoleKeys[i])] :
                                    i \in 1..Len(RoleKeys)},
     role_summary_templates |-> {TierKeys[i] : i \in 1..Len(TierKeys)},
     defensive_types        |-> {"Steel", "Fairy"},
     offensive_types        |-> {"Dragon", "Fighting"}]

\* the driver's state while a function of the engine is called on its own
BatchIdle ==
    /\ config_file = [status |-> "ok", content |-> DefaultConfig]
    /\ data_file = [readable |-> FALSE, content |-> <<>>]
    /\ backup_interval = 0
    /\ start_idx = 0
    /\ pokemon_data = <<>>
    /\ loop_i = 0
    /\ processed_count = 0
    /\ error_count = 0
    /\ files = <<>>

----------------------------------------------------------------------------
(* Records *)

s_great  == <<"g","r","e","a","t">>
s_ultra  == <<"u","l","t","r","a">>
s_master == <<"m","a","s","t","e","r">>
s_little == <<"l","i","t","t","l","e">>
LeagueNames == <<s_great, s_ultra, s_master, s_little>>

\* the largest number of entries of a record's leagues dict
MaxLeagues == 2

\* league scores: every threshold of the two cascades (a record without a scored
\* league has the maximum 0, below them all)
ScoreValues == {45, 50, 60, 65, 70, 75, 80, 85, 90}

\* one value of the leagues dict: None, {} or {"score": s}
LeagueValues ==
    {[k |-> "null", keys |-> {}, score |-> 0], [k |-> "val", keys |-> {}, score |-> 0]}
    \cup {[k |-> "val", keys |-> {"score"}, score |-> s] : s \in ScoreValues}

NamedLeagues(f) ==
    [i \in DOMAIN f |-> [name |-> LeagueNames[i], k |-> f[i].k, keys |-> f[i].keys,
                         score |-> f[i].score]]

\* the place of a league value in the order None, {}, scores ascending
LeagueOrder(v) == IF v.k = "null" THEN -2 ELSE IF v.keys = {} THEN -1 ELSE v.score

\* the value lists taken as inputs run up or run down in that order (every list
\* of one or two values does)
Monotone(f) ==
    \/ \A i \in DOMAIN f : i = 1 \/ LeagueOrder(f[i - 1]) <= LeagueOrder(f[i])
    \/ \A i \in DOMAIN f : i = 1 \/ LeagueOrder(f[i - 1]) >= LeagueOrder(f[i])

LeagueDicts(values) ==
    UNION {{NamedLeagues(f) : f \in {g \in [1..n -> values] : Monotone(g)}} :
             n \in 0..MaxLeagues}

\* a record none of whose keys is present
EmptyRecord ==
    [name             |-> Absent("Pikachu"),
     types            |-> Absent(<<>>),
     leagues          |-> Absent(<<>>),
     raidTier         |-> Absent(s_empty),
     defenderTier     |-> Absent(s_empty),
     bestTypes        |-> Absent(<<>>),
     form             |-> Absent(s_empty),
     recommendedCount |-> Absent(0),
     trashability     |-> Absent(s_empty),
     quickRole        |-> Absent(s_empty),
     keyTags          |-> Absent(<<>>),
     roleSummary      |-> Absent(NoSummary),
     notes            |-> Absent(<<>>)]

\* one bestTypes entry {"type": "Fire", "rank": r}; the rank key may be missing
BestType(rank) == [type |-> Val("Fire"), rank |-> rank]

RankValues ==
    {Absent(s_empty),
     Val(<<"1","0">>), Val(<<"1","1">>), Val(<<"3",".">>), Val(<<"1","0",".","9">>),
     Val(<<"a","b","c">>), Val(<<"i","n","f">>)}

RaidTierValues ==
    {Absent(s_empty), Null(s_empty)}
    \cup {Val(t) : t \in {s_S_Tier, s_Ap_Tier, s_A_Tier, s_Bp_Tier, s_B_Tier, s_C_Tier}}

DefenderTierValues ==
    {Absent(s_empty), Val(s_A_Tier), Val(s_B_Tier)}

BestTypesValues ==
    {Absent(<<>>), Null(<<>>), Val(<<>>)} \cup {Val(<<BestType(r)>>) : r \in RankValues}

LeaguesValues ==
    {Absent(<<>>), Null(<<>>)} \cup {Val(d) : d \in LeagueDicts(LeagueValues)}

----------------------------------------------------------------------------
(* Calling the two classifiers on a record *)

ClassifyRecords ==
    {[EmptyRecord EXCEPT !.leagues = l, !.raidTier = r, !.defenderTier = d, !.bestTypes = b] :
        l \in LeaguesValues, r \in RaidTierValues, d \in DefenderTierValues,
        b \in BestTypesValues}

InitClassify ==
    /\ config = DefaultConfig
    /\ pokemon \in ClassifyRecords
    /\ pc = "start"
    /\ args = <<>>
    /\ performance_tier = "unset"
    /\ role_type = "unset"
    /\ tags = <<>>
    /\ strengths_returned = NoStrengths
    /\ results = <<>>
    /\ BatchIdle

CallTier ==
    /\ pc = "start"
    /\ performance_tier' = calculate_performance_tier(config, pokemon)
    /\ pc' = "tier"
    /\ UNCHANGED <<batchVars, strengths_returned,
                   results, config, pokemon, args, role_type, tags>>

CallRole ==
    /\ pc = "tier"
    /\ role_type' = determine_role_type(config, pokemon)
    /\ pc' = "role"
    /\ UNCHANGED <<batchVars, strengths_returned,
                   results, config, pokemon, args, performance_tier, tags>>

NextClassify == CallTier \/ CallRole

SpecClassify == InitClassify /\ [][NextClassify]_vars

----------------------------------------------------------------------------
(* Properties of the two classifiers *)

\* the leagues of the record that are present and carry a score
ScoredLeagues ==
    IF pokemon.leagues.k # "val" THEN {}
    ELSE {i \in DOMAIN pokemon.leagues.v :
            pokemon.leagues.v[i].k = "val" /\ "score" \in pokemon.leagues.v[i].keys}

\* M: the largest league score, 0 when no league is present
MetricM ==
    IF ScoredLeagues = {} THEN 0
    ELSE CHOOSE m \in {pokemon.leagues.v[i].score : i \in ScoredLeagues} :
            \A i \in ScoredLeagues : pokemon.leagues.v[i].score <= m

\* S: the number of leagues with score >= 75
MetricS == Cardinality({i \in ScoredLeagues : pokemon.leagues.v[i].score >= 75})

\* R: the raid_tier_rankings entry of raidTier, 0 if unrecognized or absent
MetricR ==
    LET hit == {e \in config.raid_tier_rankings :
                    pokemon.raidTier.k = "val" /\ e.tier = pokemon.raidTier.v}
    IN  IF hit = {} THEN 0 ELSE (CHOOSE e \in hit : TRUE).score

ExpectedTier ==
    CASE MetricM >= 90 /\ MetricS >= 2 /\ MetricR >= 4     -> "meta_defining"
      [] OTHER -> CASE MetricM >= 80 /\ (MetricS >= 1 \/ MetricR >= 3) -> "strong"
      [] OTHER -> CASE MetricM >= 70 \/ MetricR >= 3       -> "solid"
      [] OTHER -> CASE MetricM >= 60 \/ MetricR >= 2       -> "situational"
      [] OTHER -> CASE MetricM >= 50 \/ MetricR >= 1       -> "limited"
      [] OTHER -> "trash"

\* C1: whenever calculate_performance_tier returns, it returns the first match of
\* the ordered cascade meta_defining, strong, solid, situational, limited, trash
\* over M (0 without leagues; null entries contribute nothing), S and R.
C1_TierIsFirstMatch ==
    (pc # "start" /\ performance_tier \notin ExceptionNames)
        => performance_tier = ExpectedTier

\* the top of the cascade is reached, and so is a record whose only scored league
\* stands beside a null entry
C1_Witness ==
    /\ pc # "start"
    /\ performance_tier = "strong"
    /\ pokemon.leagues.k = "val"
    /\ \E i \in DOMAIN pokemon.leagues.v : pokemon.leagues.v[i].k = "null"
    /\ MetricR = 0

\* the integer each rank text of the inputs stands for; 999 when it is missing
\* or is no number
ExpectedRank(rank) ==
    CASE rank.k # "val"                  -> 999
      [] rank.v = <<"1","0">>            -> 10
      [] rank.v = <<"1","1">>            -> 11
      [] rank.v = <<"3",".">>            -> 3
      [] rank.v = <<"1","0",".","9">>    -> 10
      [] rank.v = <<"5">>                -> 5
      [] rank.v = <<"6">>                -> 6
      [] OTHER                           -> 999

\* T: the number of bestTypes entries with parsed rank <= 10
MetricT ==
    IF pokemon.bestTypes.k # "val" THEN 0
    ELSE Cardinality({i \in DOMAIN pokemon.bestTypes.v :
                        ExpectedRank(pokemon.bestTypes.v[i].rank) <= 10})

\* D: defenderTier contains one of S Tier, A+ Tier, A Tier
MetricD ==
    /\ pokemon.defenderTier.k = "val"
    /\ \E t \in {s_S_Tier, s_Ap_Tier, s_A_Tier} : Contains(pokemon.defenderTier.v, t)

ExpectedRole ==
    CASE MetricM >= 85 /\ MetricS >= 2 /\ MetricR >= 3 -> "meta_anchor"
      [] OTHER -> CASE MetricM >= 80 /\ MetricS >= 1   -> "pvp_specialist"
      [] OTHER -> CASE MetricM >= 75 /\ MetricS >= 1   -> "league_anchor"
      [] OTHER -> CASE MetricR >= 3 \/ MetricT >= 1    -> "raid_specialist"
      [] OTHER -> CASE MetricR >= 2 \/ MetricT >= 1    -> "type_specialist"
      [] OTHER -> CASE MetricD /\ MetricM >= 60        -> "gym_defender"
      [] OTHER -> CASE MetricM >= 65                   -> "cup_specialist"
      [] OTHER -> CASE MetricM >= 50                   -> "spice_pick"
      [] OTHER -> CASE MetricM >= 45 \/ MetricR >= 1   -> "budget_option"
      [] OTHER -> "collector_only"

\* C3: whenever determine_role_type returns, it returns the first match of the
\* 10-way cascade over M, S, R, T and D; an entry whose rank is missing or is no
\* number has rank 999 and does not count toward T.
C3_RoleIsFirstMatch ==
    (pc = "role" /\ role_type \notin ExceptionNames) => role_type = ExpectedRole

\* a rank of exactly 10 decides the role, and an unparsable one does not
C3_Witness ==
    /\ pc = "role"
    /\ role_type = "raid_specialist"
    /\ MetricR = 0
    /\ pokemon.bestTypes.k = "val"
    /\ Len(pokemon.bestTypes.v) = 1
    /\ pokemon.bestTypes.v[1].rank = Val(<<"1","0">>)

----------------------------------------------------------------------------
(* The tier chain on two metric triples, the second larger in one metric *)

\* the largest strong-league count and raid score of a triple
MaxStrong == 3
MaxRaidScore == 5

\* league scores at and just below the thresholds of the tier chain
MonoScores == {0, 49, 50, 59, 60, 69, 70, 79, 80, 89, 90, 100}

MetricTriples == MonoScores \X (0..MaxStrong) \X (0..MaxRaidScore)

\* In this specification args is the sequence of triples handed to the chain and
\* performance_tier the sequence of values it returned.
InitMono ==
    /\ config = DefaultConfig
    /\ pokemon = EmptyRecord
    /\ pc = "start"
    /\ args \in {<<t>> : t \in MetricTriples}
    /\ performance_tier = <<>>
    /\ role_type = "unset"
    /\ tags = <<>>
    /\ strengths_returned = NoStrengths
    /\ results = <<>>
    /\ BatchIdle

ClassifyMetrics ==
    /\ Len(performance_tier) < Len(args)
    /\ LET m == args[Len(performance_tier) + 1]
       IN  performance_tier' = Append(performance_tier, TierCascade(m[1], m[2], m[3]))
    /\ UNCHANGED <<batchVars, strengths_returned,
                   results, config, pokemon, pc, args, role_type, tags>>

\* a second triple: the first with exactly one metric made larger
IncreaseMetric ==
    /\ Len(args) = 1
    /\ Len(performance_tier) = 1
    /\ \E t \in MetricTriples :
        /\ \E j \in 1..3 : t[j] > args[1][j] /\ \A h \in (1..3) \ {j} : t[h] = args[1][h]
        /\ args' = Append(args, t)
    /\ UNCHANGED <<batchVars, strengths_returned,
                   results, config, pokemon, pc, performance_tier, role_type, tags>>

NextMono == ClassifyMetrics \/ IncreaseMetric

SpecMono == InitMono /\ [][NextMono]_vars

\* position of a tier in trash < limited < situational < solid < strong < meta_defining
TierRank(t) == CHOOSE i \in 1..Len(TierKeys) : TierKeys[i] = t

\* C2: of two metric triples that differ only by one metric being larger in the
\* second, the second never gets a lower tier than the first.
C2_TierMonotonic ==
    Len(performance_tier) = 2 => TierRank(performance_tier[2]) >= TierRank(performance_tier[1])

\* a larger strong-league count alone lifts solid to strong
C2_Witness ==
    /\ Len(performance_tier) = 2
    /\ args[2][2] > args[1][2]
    /\ performance_tier = <<"solid", "strong">>

----------------------------------------------------------------------------
(* Calling generate_tags on a record and a role *)

\* recommendedCount ranges over -1..MaxCount
MaxCount == 5

s_Shadow      == <<"S","h","a","d","o","w">>
s_Mega        == <<"M","e","g","a">>
s_Gigantamax  == <<"G","i","g","a","n","t","a","m","a","x">>
s_Shadow_Mega == <<"S","h","a","d","o","w"," ","M","e","g","a">>
s_Essential   == <<"E","s","s","e","n","t","i","a","l">>
s_other       == <<"o","t","h","e","r">>

TrashabilityValues ==
    {Absent(s_empty), Null(s_empty)}
    \cup {Val(t) : t \in {s_essential, s_valuable, s_reliable, s_useful, s_niche, s_trash,
                          s_Essential, s_other}}

FormValues ==
    {Absent(s_empty), Null(s_empty)}
    \cup {Val(f) : f \in {s_normal, s_Shadow, s_Mega, s_Gigantamax, s_Shadow_Mega}}

CountValues ==
    {Absent(0), Null(0)} \cup {Val(n) : n \in -1..MaxCount}

TagRaidTierValues == {Absent(s_empty), Val(s_S_Tier), Val(s_Ap_Tier), Val(s_A_Tier)}

\* no league; one league below, or at, the League Staple score; a null league
TagLeaguesValues ==
    {Absent(<<>>)} \cup
    {Val(NamedLeagues(<<l>>)) :
        l \in {[k |-> "null", keys |-> {}, score |-> 0],
               [k |-> "val", keys |-> {"score"}, score |-> 75],
               [k |-> "val", keys |-> {"score"}, score |-> 80]}}

TagRecords ==
    {[EmptyRecord EXCEPT !.trashability = t, !.form = f, !.recommendedCount = c,
                         !.raidTier = r, !.leagues = l] :
        t \in TrashabilityValues, f \in FormValues, c \in CountValues,
        r \in TagRaidTierValues, l \in TagLeaguesValues}

\* In this specification args is the role handed to generate_tags.
InitTags ==
    /\ config = DefaultConfig
    /\ pokemon \in TagRecords
    /\ pc = "start"
    /\ args \in {RoleKeys[i] : i \in 1..Len(RoleKeys)}
    /\ performance_tier = "unset"
    /\ role_type = "unset"
    /\ tags = <<>>
    /\ strengths_returned = NoStrengths
    /\ results = <<>>
    /\ BatchIdle

CallGenerateTags ==
    /\ pc = "start"
    /\ tags' = generate_tags(pokemon, performance_tier, args, <<>>)
    /\ pc' = "done"
    /\ UNCHANGED <<batchVars, strengths_returned,
                   results, config, pokemon, args, performance_tier, role_type>>

NextTags == CallGenerateTags

SpecTags == InitTags /\ [][NextTags]_vars

\* C4: for every record and each of the 10 role keys, the list generate_tags
\* returns has between 2 and 5 elements and holds no string twice.
C4_TagsBounded ==
    pc = "done" =>
        /\ Len(tags) >= 2
        /\ Len(tags) <= 5
        /\ \A i, j \in 1..Len(tags) : tags[i] = tags[j] => i = j

\* both ends of the range are reached, the upper one by cutting a sixth tag off
C4_Witness ==
    /\ pc = "done"
    /\ Len(tags) = 5
    /\ Len(add_form_tag(add_role_tags(tags_before_role(pokemon), role_tags(args)),
                        Lower(GetOrFalsy(pokemon.form, s_empty, s_empty)))) = 6

C4_WitnessLow == pc = "done" /\ Len(tags) = 2 /\ pokemon.recommendedCount = Val(-1)

FormOf(p) == IF p.form.k = "val" THEN Lower(p.form.v) ELSE s_empty

\* C10: if form contains "shadow" (any case) the tags contain Shadow Boost;
\* otherwise if it contains "mega" they contain Mega Evolution; otherwise if it
\* contains "gigantamax" they contain Gigantamax; and at most one of the three
\* tags is present.
C10_FormTagPresent ==
    pc = "done" =>
        /\ Contains(FormOf(pokemon), s_shadow) => InSeq("Shadow Boost", tags)
        /\ (~Contains(FormOf(pokemon), s_shadow) /\ Contains(FormOf(pokemon), s_mega))
                => InSeq("Mega Evolution", tags)
        /\ (~Contains(FormOf(pokemon), s_shadow) /\ ~Contains(FormOf(pokemon), s_mega)
                /\ Contains(FormOf(pokemon), s_gigantamax))
                => InSeq("Gigantamax", tags)
        /\ Cardinality({t \in {"Shadow Boost", "Mega Evolution", "Gigantamax"} :
                            InSeq(t, tags)}) <= 1

----------------------------------------------------------------------------
(* Calling analyze_pokemon on a record, before and after its result is merged *)

\* every field absent, None or well-typed
AnalyzeRecords ==
    {[EmptyRecord EXCEPT !.name = Val("Pikachu"), !.leagues = l, !.raidTier = r,
                         !.defenderTier = d, !.bestTypes = b, !.types = t, !.form = f,
                         !.recommendedCount = c, !.trashability = tr] :
        l  \in {Absent(<<>>), Null(<<>>), Val(<<>>),
                Val(NamedLeagues(<<[k |-> "val", keys |-> {"score"}, score |-> 95],
                                   [k |-> "val", keys |-> {"score"}, score |-> 80]>>)),
                Val(NamedLeagues(<<[k |-> "null", keys |-> {}, score |-> 0],
                                   [k |-> "val", keys |-> {"score"}, score |-> 65]>>))},
        r  \in {Absent(s_empty), Null(s_empty), Val(s_S_Tier), Val(s_B_Tier)},
        d  \in {Absent(s_empty), Null(s_empty), Val(s_A_Tier)},
        b  \in {Absent(<<>>), Null(<<>>), Val(<<BestType(Val(<<"3">>))>>)},
        t  \in {Absent(<<>>), Null(<<>>), Val(<<"Steel">>)},
        f  \in {Absent(s_empty), Null(s_empty), Val(s_Shadow)},
        c  \in {Absent(0), Null(0), Val(4)},
        tr \in {Absent(s_empty), Null(s_empty), Val(s_trash)}}

InitAnalyze ==
    /\ config = DefaultConfig
    /\ pokemon \in AnalyzeRecords
    /\ pc = "start"
    /\ args = <<>>
    /\ performance_tier = "unset"
    /\ role_type = "unset"
    /\ tags = <<>>
    /\ strengths_returned = NoStrengths
    /\ results = <<>>
    /\ BatchIdle

\* the largest number of calls on one record
MaxCalls == 2

CallAnalyze ==
    /\ Len(results) < MaxCalls
    /\ results' = Append(results, analyze_pokemon(config, pokemon))
    /\ pc' = "called"
    /\ UNCHANGED <<batchVars, strengths_returned,
                   config, pokemon, args, performance_tier, role_type, tags>>

\* the caller merges the four fields of the first result into the record
MergeResult ==
    /\ pc = "called"
    /\ Len(results) = 1
    /\ results[1].exc = ""
    /\ pokemon' = merge_analysis(pokemon, results[1])
    /\ pc' = "merged"
    /\ UNCHANGED <<batchVars, strengths_returned,
                   config, args, performance_tier, role_type, tags, results>>

NextAnalyze == CallAnalyze \/ MergeResult

SpecAnalyze == InitAnalyze /\ [][NextAnalyze]_vars

FieldsOfClaimC5 ==
    {"leagues", "raidTier", "defenderTier", "bestTypes", "types", "form",
     "recommendedCount", "trashability"}

\* C5: analyze_pokemon never raises for a record each of whose fields is absent,
\* None or well-typed: a result is returned, and a record without any data gets
\* the role of collector_only (and tier trash, which its tags show).
C5_NeverRaises ==
    Len(results) >= 1 =>
        /\ results[1].exc = ""
        /\ (\A fld \in FieldsOfClaimC5 : pokemon[fld].k # "val")
                => results[1].quickRole = DefaultRoleName("collector_only")

\* C9: a call of analyze_pokemon leaves the record and the configuration as they
\* are, and a second call returns what the first returned, also when the four
\* fields of the first result were merged into the record in between.
C9_Pure ==
    [][Len(results') = Len(results) + 1 =>
            /\ pokemon' = pokemon
            /\ config' = config
            /\ Len(results') = 2 => results'[1] = results'[2]]_vars

\* a second call on a record that carries the merged fields of the first
C9_Witness ==
    /\ Len(results) = 2
    /\ pokemon.keyTags.k = "val"
    /\ Len(pokemon.keyTags.v) = 5
    /\ results[2].exc = ""

----------------------------------------------------------------------------
(* main of batch_ai_processor.py *)

\* the largest number of records in the data file, the largest backup interval
\* and the largest start index
MaxRecords == 3
MaxInterval == 2
MaxStart == 1

\* DefaultConfig without the summary template of tier trash
ConfigNoTemplate ==
    [DefaultConfig EXCEPT !.role_summary_templates = @ \ {"trash"}]

\* DefaultConfig without the role collector_only
ConfigNoRole ==
    [DefaultConfig EXCEPT !.role_types = {e \in @ : e.key # "collector_only"}]

\* DefaultConfig without the descriptor of tier meta_defining
ConfigNoTier ==
    [DefaultConfig EXCEPT !.performance_tiers = @ \ {"meta_defining"}]

ConfigFiles ==
    {[status |-> "missing", content |-> NoConfig],
     [status |-> "invalid", content |-> NoConfig]}
    \cup {[status |-> "ok", content |-> c] :
            c \in {DefaultConfig, ConfigNoTemplate, ConfigNoRole, ConfigNoTier}}

\* a record without data; a record at the top of both cascades; a record whose
\* leagues are None
BatchRecords ==
    {[EmptyRecord EXCEPT !.name = Val("Rattata")],
     [EmptyRecord EXCEPT
        !.name = Val("Dialga"),
        !.leagues = Val(NamedLeagues(<<[k |-> "val", keys |-> {"score"}, score |-> 95],
                                       [k |-> "val", keys |-> {"score"}, score |-> 80]>>)),
        !.raidTier = Val(s_S_Tier), !.recommendedCount = Val(4)],
     [EmptyRecord EXCEPT !.name = Val("Unown"), !.leagues = Null(<<>>)]}

DataFiles ==
    {[readable |-> FALSE, content |-> <<>>]}
    \cup {[readable |-> TRUE, content |-> d] :
            d \in UNION {[1..n -> BatchRecords] : n \in 0..MaxRecords}}

\* the state before main runs: nothing is constructed or loaded.  backup_interval
\* and start_idx hold the arguments the constructor and process_pokemon_batch get.
InitBatch ==
    /\ config = NoConfig
    /\ pc = "main"
    /\ pokemon = EmptyRecord
    /\ args = <<>>
    /\ performance_tier = "unset"
    /\ role_type = "unset"
    /\ tags = <<>>
    /\ strengths_returned = NoStrengths
    /\ results = <<>>
    /\ config_file \in ConfigFiles
    /\ data_file \in DataFiles
    /\ backup_interval \in 0..MaxInterval
    /\ start_idx \in 0..MaxStart
    /\ pokemon_data = <<>>
    /\ loop_i = 0
    /\ processed_count = 0
    /\ error_count = 0
    /\ files = <<>>

\* processor = BatchAIProcessor(): PokemonAgent() loads the configuration or exits
Construct ==
    /\ pc = "main"
    /\ config' = load_config(config_file).config
    /\ pc' = IF load_config(config_file).exit THEN "exited" ELSE "constructed"
    /\ processed_count' = 0
    /\ error_count' = 0
    /\ UNCHANGED <<callVars, config_file, data_file, backup_interval, start_idx,
                   pokemon_data, loop_i, files>>

\* pokemon_data = processor.load_pokemon_data(); main returns when it is empty,
\* else it enters process_pokemon_batch
LoadData ==
    /\ pc = "constructed"
    /\ pokemon_data' = load_pokemon_data(data_file)
    /\ pc' = IF Len(load_pokemon_data(data_file)) = 0 THEN "done" ELSE "loop"
    /\ loop_i' = start_idx
    /\ UNCHANGED <<callVars, config, config_file, data_file, backup_interval, start_idx,
                   processed_count, error_count, files>>

\* save_pokemon_data(pokemon_data, suffix): the write succeeds or fails
SaveCall(suffix, ok, data) ==
    [suffix |-> suffix, ok |-> ok, data |-> IF ok THEN data ELSE <<>>]

\* one iteration of the loop of process_pokemon_batch
ProcessRecord ==
    /\ pc = "loop"
    /\ loop_i < Len(pokemon_data)
    /\ \E h \in {handle_record(config, pokemon_data[loop_i + 1], loop_i, processed_count,
                               error_count, backup_interval)} :
           /\ pokemon_data' = [pokemon_data EXCEPT ![loop_i + 1] = h.pokemon]
           /\ processed_count' = h.processed_count
           /\ error_count' = h.error_count
           /\ IF h.backup
              THEN \E ok \in BOOLEAN :
                      files' = Append(files, SaveCall(loop_i + 1, ok, pokemon_data'))
              ELSE files' = files
           /\ pc' = IF h.escaped = "" THEN "loop" ELSE "crashed"
    /\ loop_i' = loop_i + 1
    /\ UNCHANGED <<callVars, config, config_file, data_file, backup_interval, start_idx>>

\* the loop is over: process_pokemon_batch returns the list
ReturnBatch ==
    /\ pc = "loop"
    /\ loop_i >= Len(pokemon_data)
    /\ pc' = "returned"
    /\ UNCHANGED <<callVars, batchVars, config>>

\* processor.save_pokemon_data(updated_data): the final save, suffix 0
SaveFinal ==
    /\ pc = "returned"
    /\ \E ok \in BOOLEAN : files' = Append(files, SaveCall(0, ok, pokemon_data))
    /\ pc' = "saved"
    /\ UNCHANGED <<callVars, config, config_file, data_file, backup_interval, start_idx,
                   pokemon_data, loop_i, processed_count, error_count>>

\* processor.generate_summary_report(updated_data): prints only
Report ==
    /\ pc = "saved"
    /\ pc' = "done"
    /\ UNCHANGED <<callVars, batchVars, config>>

NextBatch == Construct \/ LoadData \/ ProcessRecord \/ ReturnBatch \/ SaveFinal \/ Report

SpecBatch == InitBatch /\ [][NextBatch]_vars

\* the analysis of the record the loop is about to handle raises
NextRecordFails ==
    /\ pc = "loop"
    /\ loop_i < Len(pokemon_data)
    /\ analyze_pokemon(config, pokemon_data[loop_i + 1]).exc # ""

\* C6: when the analysis of a record fails, the record gets quickRole "Unknown",
\* keyTags ["Processing Error"], an explanatory roleSummary and notes;
\* error_count grows by exactly 1, processed_count stays, and the loop goes on
\* with the next record: the batch is not aborted.
C6_FailureIsContained ==
    [][NextRecordFails =>
        /\ pokemon_data'[loop_i + 1].quickRole = Val(s_Unknown)
        /\ pokemon_data'[loop_i + 1].keyTags = Val(<<"Processing Error">>)
        /\ pokemon_data'[loop_i + 1].roleSummary.k = "val"
        /\ pokemon_data'[loop_i + 1].roleSummary.v.template
                = "Error processing {pokemon_name}. Please review manually."
        /\ pokemon_data'[loop_i + 1].notes.k = "val"
        /\ pokemon_data'[loop_i + 1].notes.v[1].exc
                = analyze_pokemon(config, pokemon_data[loop_i + 1]).exc
        /\ error_count' = error_count + 1
        /\ processed_count' = processed_count
        /\ loop_i' = loop_i + 1
        /\ pc' = "loop"]_vars

\* a record is analyzed after an earlier one failed, and the call returns
C6_Witness ==
    /\ pc = "returned"
    /\ Len(pokemon_data) = 3
    /\ start_idx = 0
    /\ pokemon_data[1].quickRole = Val(s_Unknown)
    /\ pokemon_data[2].quickRole = Val(DefaultRoleName("meta_anchor"))
    /\ pokemon_data[3].quickRole = Val(s_Unknown)
    /\ error_count = 2
    /\ processed_count = 1

\* C7: when the configuration file is missing or is no valid JSON, the process
\* exits in the constructor: the data are never loaded, no record is analyzed or
\* changed, and no file is written.
C7_BadConfigAborts ==
    (config_file.status \in {"missing", "invalid"} /\ pc # "main") =>
        /\ pc = "exited"
        /\ pokemon_data = <<>>
        /\ processed_count = 0
        /\ error_count = 0
        /\ files = <<>>

\* the process has exited on a configuration that is no valid JSON
C7_Witness == pc = "exited" /\ config_file.status = "invalid" /\ data_file.readable

\* the configuration lacks the entry of the tier or of the role of record p
ConfigMismatch(cfg, p) ==
    /\ calculate_performance_tier(cfg, p) \notin ExceptionNames
    /\ determine_role_type(cfg, p) \notin ExceptionNames
    /\ \/ calculate_performance_tier(cfg, p) \notin cfg.performance_tiers
       \/ calculate_performance_tier(cfg, p) \notin cfg.role_summary_templates
       \/ ~HasRole(cfg, determine_role_type(cfg, p))

\* C8: a configuration that lacks the entry of a tier or role the classifiers
\* produce is never handled as a per-record error: the batch does not go on past
\* such a record with fallback values and a larger error count.
C8_MismatchIsFatal ==
    [][(pc = "loop" /\ loop_i < Len(pokemon_data)
            /\ ConfigMismatch(config, pokemon_data[loop_i + 1]))
        => ~(/\ pc' = "loop"
             /\ error_count' = error_count + 1
             /\ pokemon_data'[loop_i + 1].quickRole = Val(s_Unknown))]_vars

----------------------------------------------------------------------------
(* Periodic backups *)

\* C11: for every index i the loop handles with (i+1) a multiple of
\* backup_interval, a save with suffix backup_<i+1> is attempted after record i
\* has been handled and before record i+1 is started.
C11_BackupEveryInterval ==
    [][(pc = "loop" /\ loop_i < Len(pokemon_data) /\ backup_interval > 0
            /\ (loop_i + 1) % backup_interval = 0)
        => (/\ Len(files') = Len(files) + 1
            /\ files'[Len(files')].suffix = loop_i + 1)]_vars

----------------------------------------------------------------------------
(* The role-specific step of generate_tags *)

\* C12: if the list holds n tags before the role-specific step, it holds at most
\* max(n, 4) tags after it: no role tag is appended to a list that already has
\* 4 or more tags.
C12_RoleStepStopsAtFour ==
    pc = "done" =>
        LET n     == Len(tags_before_role(pokemon))
            after == Len(add_role_tags(tags_before_role(pokemon), role_tags(args)))
        IN  after <= (IF n > RoleTagLimit THEN n ELSE RoleTagLimit)

----------------------------------------------------------------------------
(* Calling identify_strengths on a record *)

\* the largest number of entries of a record's bestTypes list
MaxBestTypes == 3

TypeNames == <<"Fire", "Ice", "Rock", "Dark">>

\* ranks on both sides of the elite threshold
StrengthRankValues == {Val(<<"5">>), Val(<<"6">>)}

\* bestTypes lists whose i-th entry has the i-th type name
StrengthBestTypes ==
    {Absent(<<>>), Null(<<>>)} \cup
    {Val([i \in 1..n |-> [type |-> Val(TypeNames[i]), rank |-> f[i]]]) :
        n \in 0..MaxBestTypes, f \in [1..MaxBestTypes -> StrengthRankValues]}

StrengthLeagueValues ==
    {[k |-> "null", keys |-> {}, score |-> 0]}
    \cup {[k |-> "val", keys |-> {"score"}, score |-> sc] : sc \in {75, 80, 90}}

StrengthTypesValues ==
    {Absent(<<>>), Null(<<>>), Val(<<"Water">>), Val(<<"Steel">>), Val(<<"Dragon">>),
     Val(<<"Dragon", "Steel">>)}

StrengthRaidTierValues ==
    {Absent(s_empty), Null(s_empty), Val(s_S_Tier), Val(s_Ap_Tier), Val(s_A_Tier)}

StrengthRecords ==
    {[EmptyRecord EXCEPT !.leagues = l, !.bestTypes = b, !.types = t, !.raidTier = r] :
        l \in {Absent(<<>>), Null(<<>>)}
                \cup {Val(d) : d \in LeagueDicts(StrengthLeagueValues)},
        b \in StrengthBestTypes, t \in StrengthTypesValues, r \in StrengthRaidTierValues}

InitStrengths ==
    /\ config = DefaultConfig
    /\ pokemon \in StrengthRecords
    /\ pc = "start"
    /\ args = <<>>
    /\ performance_tier = "unset"
    /\ role_type = "unset"
    /\ tags = <<>>
    /\ strengths_returned = NoStrengths
    /\ results = <<>>
    /\ BatchIdle

CallStrengths ==
    /\ pc = "start"
    /\ strengths_returned' = identify_strengths(config, pokemon)
    /\ pc' = "done"
    /\ UNCHANGED <<batchVars, results, config, pokemon, args, performance_tier, role_type,
                   tags>>

NextStrengths == CallStrengths

SpecStrengths == InitStrengths /\ [][NextStrengths]_vars

\* the leagues of the record with a score >= 80, in dict order
LeaguesOver80 ==
    IF pokemon.leagues.k # "val" THEN <<>>
    ELSE LET Over(l) == l.k = "val" /\ "score" \in l.keys /\ l.score >= 80
         IN  SelectSeq(pokemon.leagues.v, Over)

\* the bestTypes entries of the record with parsed rank <= 5, in list order
EliteEntries ==
    IF pokemon.bestTypes.k # "val" THEN <<>>
    ELSE LET Elite(t) == ExpectedRank(t.rank) <= 5
         IN  SelectSeq(pokemon.bestTypes.v, Elite)

HasTypeIn(set) ==
    /\ pokemon.types.k = "val"
    /\ \E i \in DOMAIN pokemon.types.v : pokemon.types.v[i] \in set

RaidPhraseApplies ==
    /\ pokemon.raidTier.k = "val"
    /\ (Contains(pokemon.raidTier.v, s_S_Tier) \/ Contains(pokemon.raidTier.v, s_Ap_Tier))

\* the place of a phrase in the priority order: 1 league performance,
\* 2 elite type, 3 typing advantage, 4 raid tier
PhrasePriority(ph) ==
    CASE ph.kind \in {"league", "leagues performance"} -> 1
      [] ph.kind = "elite attacker" -> 2
      [] ph.kind \in {"excellent defensive typing", "powerful offensive typing"} -> 3
      [] OTHER -> 4

\* the priorities of the phrases that apply to the record, in priority order
ApplicablePriorities ==
    (IF Len(LeaguesOver80) > 0 THEN <<1>> ELSE <<>>)
    \o (IF Len(EliteEntries) > 0 THEN <<2>> ELSE <<>>)
    \o (IF HasTypeIn(config.defensive_types) \/ HasTypeIn(config.offensive_types)
        THEN <<3>> ELSE <<>>)
    \o (IF RaidPhraseApplies THEN <<4>> ELSE <<>>)

\* C13: identify_strengths returns at most 2 phrases, the first two that apply in
\* the order league performance, elite type, typing advantage (defensive before
\* offensive, never both), raid tier.  So the league phrase is first whenever a
\* league has score >= 80, the elite-type phrase is in the result whenever a
\* bestTypes entry has parsed rank <= 5, and the raid-tier phrase appears only
\* if fewer than two phrases of higher priority apply.
C13_FirstTwoStrengths ==
    (pc = "done" /\ strengths_returned.exc = "") =>
        LET v == strengths_returned.v
        IN  /\ Len(v) <= 2
            /\ [i \in 1..Len(v) |-> PhrasePriority(v[i])]
                    = Take(ApplicablePriorities, 2)
            /\ Len(LeaguesOver80) > 0 =>
                    /\ PhrasePriority(v[1]) = 1
                    /\ Len(v[1].leagues) = Len(LeaguesOver80)
            /\ Len(EliteEntries) > 0 =>
                    \E i \in 1..Len(v) :
                        /\ v[i].kind = "elite attacker"
                        /\ v[i].types
                             = [j \in 1..Len(Take(EliteEntries, 2)) |-> EliteEntries[j].type.v]
            /\ \A i \in 1..Len(v) :
                    /\ v[i].kind = "excellent defensive typing"
                            => HasTypeIn(config.defensive_types)
                    /\ v[i].kind = "powerful offensive typing"
                            => (HasTypeIn(config.offensive_types)
                                    /\ ~HasTypeIn(config.defensive_types))
                    /\ PhrasePriority(v[i]) = 4
                            => Len(SelectSeq(ApplicablePriorities, LAMBDA x : x < 4)) < 2

\* all four kinds of phrase apply, three types are elite, and the call returns
\* the league phrase and the elite phrase of the first two of them
C13_Witness ==
    /\ pc = "done"
    /\ ApplicablePriorities = <<1, 2, 3, 4>>
    /\ Len(EliteEntries) = 3
    /\ Len(strengths_returned.v) = 2
    /\ strengths_returned.v[2].types = <<"Fire", "Ice">>

\* the raid phrase is returned second, behind a typing phrase
C13_WitnessRaid ==
    /\ pc = "done"
    /\ Len(strengths_returned.v) = 2
    /\ strengths_returned.v[1].kind = "powerful offensive typing"
    /\ strengths_returned.v[2].kind = "elite raid utility"

----------------------------------------------------------------------------
(* Each record is attempted once, in index order *)

\* the indices (1-based) of the records the loop has handled so far
Handled == {j \in 1..Len(pokemon_data) : start_idx < j /\ j <= loop_i}

\* the analysis of the record as it was loaded raises
FailsAt(j) == analyze_pokemon(config, data_file.content[j]).exc # ""

\* C14: for a positive backup_interval, after the loop has handled k records
\* from start_idx, processed_count + error_count = k, each handled record was
\* counted in exactly one of the two counters, every handled record carries
\* quickRole, keyTags, roleSummary and notes, and no record beyond the k-th has
\* been modified.
C14_EachRecordOnce ==
    (pc \in {"loop", "returned", "saved"} /\ backup_interval > 0) =>
        /\ processed_count + error_count = Cardinality(Handled)
        /\ error_count = Cardinality({j \in Handled : FailsAt(j)})
        /\ processed_count = Cardinality({j \in Handled : ~FailsAt(j)})
        /\ \A j \in Handled :
                /\ pokemon_data[j].quickRole.k = "val"
                /\ pokemon_data[j].keyTags.k = "val"
                /\ pokemon_data[j].roleSummary.k = "val"
                /\ pokemon_data[j].notes.k = "val"
                /\ (pokemon_data[j].keyTags.v = <<"Processing Error">>) <=> FailsAt(j)
        /\ \A j \in (1..Len(pokemon_data)) \ Handled :
                pokemon_data[j] = data_file.content[j]

\* the loop has handled a failing record and then a good one; the record still
\* ahead is untouched
C14_Witness ==
    /\ pc = "loop"
    /\ backup_interval = 2
    /\ start_idx = 0
    /\ Len(pokemon_data) = 3
    /\ loop_i = 2
    /\ error_count = 1
    /\ processed_count = 1
    /\ pokemon_data[1].quickRole = Val(s_Unknown)
    /\ pokemon_data[2].quickRole.k = "val"
    /\ pokemon_data[3].quickRole.k = "absent"

----------------------------------------------------------------------------
(* The two cascades at the top of the scale *)

\* C15: whenever calculate_performance_tier returns meta_defining,
\* determine_role_type returns meta_anchor; whenever the tier is strong, the role
\* is meta_anchor or pvp_specialist.
C15_TopOfScaleAgrees ==
    pc = "role" =>
        /\ performance_tier = "meta_defining" => role_type = "meta_anchor"
        /\ performance_tier = "strong" => role_type \in {"meta_anchor", "pvp_specialist"}

\* a strong record whose only league scores exactly 80
C15_Witness ==
    /\ pc = "role"
    /\ performance_tier = "strong"
    /\ role_type = "pvp_specialist"
    /\ MetricM = 80
    /\ MetricS = 1

\* a record at the top of both cascades
C15_WitnessTop ==
    /\ pc = "role"
    /\ performance_tier = "meta_defining"
    /\ role_type = "meta_anchor"

\* a strong record that is a meta anchor
C15_WitnessAnchor ==
    /\ pc = "role"
    /\ performance_tier = "strong"
    /\ role_type = "meta_anchor"

============================================================================
